---- MODULE Spec2Model ----
(***************************************************************************)
(* JsonChecker (crates/core/src/util/json_checker.rs): a streaming         *)
(* completeness tracker for a top-level JSON object.  Characters are       *)
(* modelled as one-character strings, text as sequences of characters.     *)
(***************************************************************************)
EXTENDS Naturals, Sequences, FiniteSets, TLC

\* ---------------------------------------------------------------- bounds
MaxFed == 5      \* characters appended to one payload (since new/reset)
MaxFrag == 2     \* characters in one fragment of the free-running driver
MaxText == 11    \* characters in a generated well-formed JSON object text

\* ------------------------------------------------------------- alphabet
LBRACE == "{"
RBRACE == "}"
QUOTE == "\""
BACKSLASH == "\\"
PLAIN == "x"
Chars == {LBRACE, RBRACE, QUOTE, BACKSLASH, PLAIN}

VARIABLES c, fresh, fed, hist, reset_from, text, script, idx

vars == <<c, fresh, fed, hist, reset_from, text, script, idx>>

\* ------------------------------------------------------------ the tracker
\* JsonChecker::new
new ==
  [buffer |-> <<>>, stack |-> <<>>, in_string |-> FALSE,
   escape_next |-> FALSE, seen_left_brace |-> FALSE]

\* variant: quotes in the discarded prefix are tracked as string delimiters
discard_leading_tracks_quotes(self, ch) ==
  IF ch = LBRACE
    THEN [self EXCEPT !.seen_left_brace = TRUE,
                      !.stack = Append(@, LBRACE),
                      !.buffer = Append(@, ch)]
    ELSE IF ch = QUOTE THEN [self EXCEPT !.in_string = ~@] ELSE self


\* variant: the text before the first '{' is buffered instead of discarded
discard_leading_keeps_noise(self, ch) ==
  IF ch = LBRACE
    THEN [self EXCEPT !.seen_left_brace = TRUE,
                      !.stack = Append(@, LBRACE),
                      !.buffer = Append(@, ch)]
    ELSE [self EXCEPT !.buffer = Append(@, ch)]

\* the branch taken while no '{' has been seen: discard, or start recording
discard_leading(self, ch) ==
  IF ch = LBRACE
    THEN [self EXCEPT !.seen_left_brace = TRUE,
                      !.stack = Append(@, LBRACE),
                      !.buffer = Append(@, ch)]
    ELSE self

\* variant: a backslash never starts an escape
match_ch_no_escape(self, ch) ==
  CASE ch = QUOTE -> [self EXCEPT !.in_string = ~@]
    [] ch = LBRACE /\ ~self.in_string -> [self EXCEPT !.stack = Append(@, LBRACE)]
    [] ch = RBRACE /\ ~self.in_string ->
         IF self.stack # <<>>
           THEN [self EXCEPT !.stack = SubSeq(@, 1, Len(@) - 1)]
           ELSE self
    [] OTHER -> self

\* variant: braces are counted inside string literals too
match_ch_braces_unguarded(self, ch) ==
  CASE ch = BACKSLASH /\ self.in_string -> [self EXCEPT !.escape_next = TRUE]
    [] ch = QUOTE -> [self EXCEPT !.in_string = ~@]
    [] ch = LBRACE -> [self EXCEPT !.stack = Append(@, LBRACE)]
    [] ch = RBRACE ->
         IF self.stack # <<>>
           THEN [self EXCEPT !.stack = SubSeq(@, 1, Len(@) - 1)]
           ELSE self
    [] OTHER -> self

\* variant: completion latches, a '{' at depth zero is not counted
match_ch_latched(self, ch) ==
  CASE ch = BACKSLASH /\ self.in_string -> [self EXCEPT !.escape_next = TRUE]
    [] ch = QUOTE -> [self EXCEPT !.in_string = ~@]
    [] ch = LBRACE /\ ~self.in_string ->
         IF self.stack = <<>> THEN self
         ELSE [self EXCEPT !.stack = Append(@, LBRACE)]
    [] ch = RBRACE /\ ~self.in_string ->
         IF self.stack # <<>>
           THEN [self EXCEPT !.stack = SubSeq(@, 1, Len(@) - 1)]
           ELSE self
    [] OTHER -> self


\* variant: an unmatched '}' is an error that sends the tracker back to
\* waiting for a '{'
match_ch_unmatched_close_rejects(self, ch) ==
  CASE ch = BACKSLASH /\ self.in_string -> [self EXCEPT !.escape_next = TRUE]
    [] ch = QUOTE -> [self EXCEPT !.in_string = ~@]
    [] ch = LBRACE /\ ~self.in_string -> [self EXCEPT !.stack = Append(@, LBRACE)]
    [] ch = RBRACE /\ ~self.in_string ->
         IF self.stack # <<>>
           THEN [self EXCEPT !.stack = SubSeq(@, 1, Len(@) - 1)]
           ELSE [self EXCEPT !.seen_left_brace = FALSE]
    [] OTHER -> self

\* variant: a '{' at depth zero starts the buffer afresh
match_ch_restart_on_reopen(self, ch) ==
  CASE ch = BACKSLASH /\ self.in_string -> [self EXCEPT !.escape_next = TRUE]
    [] ch = QUOTE -> [self EXCEPT !.in_string = ~@]
    [] ch = LBRACE /\ ~self.in_string ->
         IF self.stack = <<>>
           THEN [self EXCEPT !.stack = <<LBRACE>>, !.buffer = <<LBRACE>>]
           ELSE [self EXCEPT !.stack = Append(@, LBRACE)]
    [] ch = RBRACE /\ ~self.in_string ->
         IF self.stack # <<>>
           THEN [self EXCEPT !.stack = SubSeq(@, 1, Len(@) - 1)]
           ELSE self
    [] OTHER -> self


\* variant: an unmatched '}' is recorded on the stack
match_ch_unmatched_close_pushed(self, ch) ==
  CASE ch = BACKSLASH /\ self.in_string -> [self EXCEPT !.escape_next = TRUE]
    [] ch = QUOTE -> [self EXCEPT !.in_string = ~@]
    [] ch = LBRACE /\ ~self.in_string -> [self EXCEPT !.stack = Append(@, LBRACE)]
    [] ch = RBRACE /\ ~self.in_string ->
         IF self.stack # <<>>
           THEN [self EXCEPT !.stack = SubSeq(@, 1, Len(@) - 1)]
           ELSE [self EXCEPT !.stack = Append(@, RBRACE)]
    [] OTHER -> self

\* variant: a backslash starts an escape outside strings too
match_ch_backslash_anywhere(self, ch) ==
  CASE ch = BACKSLASH -> [self EXCEPT !.escape_next = TRUE]
    [] ch = QUOTE -> [self EXCEPT !.in_string = ~@]
    [] ch = LBRACE /\ ~self.in_string -> [self EXCEPT !.stack = Append(@, LBRACE)]
    [] ch = RBRACE /\ ~self.in_string ->
         IF self.stack # <<>>
           THEN [self EXCEPT !.stack = SubSeq(@, 1, Len(@) - 1)]
           ELSE self
    [] OTHER -> self

\* the match on ch, reached with ch already buffered and no escape pending
\* (the arms are tried in order: backslash in a string, quote, '{', '}')
match_ch(self, ch) ==
  CASE ch = BACKSLASH /\ self.in_string -> [self EXCEPT !.escape_next = TRUE]
    [] ch = QUOTE -> [self EXCEPT !.in_string = ~@]
    [] ch = LBRACE /\ ~self.in_string -> [self EXCEPT !.stack = Append(@, LBRACE)]
    [] ch = RBRACE /\ ~self.in_string ->
         IF self.stack # <<>>
           THEN [self EXCEPT !.stack = SubSeq(@, 1, Len(@) - 1)]
           ELSE self
    [] OTHER -> self


\* variant: the escaped character is classified like any other
buffer_and_match_escaped_classified(self, ch) ==
  LET pushed == [self EXCEPT !.buffer = Append(@, ch)]
  IN  IF pushed.escape_next
        THEN match_ch([pushed EXCEPT !.escape_next = FALSE], ch)
        ELSE match_ch(pushed, ch)

\* variant: an escaped backslash keeps the escape pending
buffer_and_match_escape_chains(self, ch) ==
  LET pushed == [self EXCEPT !.buffer = Append(@, ch)]
  IN  IF pushed.escape_next
        THEN [pushed EXCEPT !.escape_next = (ch = BACKSLASH)]
        ELSE match_ch(pushed, ch)

\* variant: an escaped character is consumed before it is buffered
buffer_and_match_escaped_unbuffered(self, ch) ==
  IF self.escape_next
    THEN [self EXCEPT !.escape_next = FALSE]
    ELSE match_ch([self EXCEPT !.buffer = Append(@, ch)], ch)

\* the rest of the loop body, once a '{' has been seen: buffer ch, then
\* either consume it as the escaped character or classify it
buffer_and_match(self, ch) ==
  LET pushed == [self EXCEPT !.buffer = Append(@, ch)]
  IN  IF pushed.escape_next
        THEN [pushed EXCEPT !.escape_next = FALSE]
        ELSE match_ch(pushed, ch)

RECURSIVE while_chars(_, _)
\* the while loop of append over s.chars(): one iteration for the next
\* character, then the loop again on the rest
while_chars(self, s) ==
  IF s = <<>> THEN self
  ELSE IF ~self.seen_left_brace
    THEN while_chars(discard_leading(self, Head(s)), Tail(s))
    ELSE while_chars(buffer_and_match(self, Head(s)), Tail(s))


\* variant: every call starts outside a string
append_string_per_call(self, s) ==
  while_chars([self EXCEPT !.in_string = FALSE], s)

\* variant: the escape flag is local to one call
append_escape_per_call(self, s) ==
  while_chars([self EXCEPT !.escape_next = FALSE], s)

\* JsonChecker::append
append(self, s) == while_chars(self, s)

\* JsonChecker::get_buffer
get_buffer(self) == self.buffer


\* variant: complete only when no string is open
is_valid_outside_string(self) ==
  self.stack = <<>> /\ self.seen_left_brace /\ ~self.in_string

\* variant: an empty stack alone counts as complete
is_valid_stack_only(self) == self.stack = <<>>

\* JsonChecker::is_valid
is_valid(self) == self.stack = <<>> /\ self.seen_left_brace


\* variant: the escape flag survives reset
reset_keeps_escape(self) ==
  [self EXCEPT !.buffer = <<>>, !.stack = <<>>, !.in_string = FALSE,
               !.seen_left_brace = FALSE]

\* JsonChecker::reset
reset(self) ==
  [self EXCEPT !.buffer = <<>>, !.stack = <<>>, !.in_string = FALSE,
               !.escape_next = FALSE, !.seen_left_brace = FALSE]

\* ------------------------------------------------------------ the driver
RECURSIVE SeqsUpTo(_, _)
SeqsUpTo(S, n) ==
  IF n = 0 THEN {<<>>}
  ELSE LET shorter == SeqsUpTo(S, n - 1)
       IN  shorter \cup {Append(w, x) : w \in shorter, x \in S}

Fragments == SeqsUpTo(Chars, MaxFrag)

\* the last entries of the call history, newest last
Remember(h, e) == IF h = <<>> THEN <<e>> ELSE <<h[Len(h)], e>>

Init ==
  /\ c = new
  /\ fresh = new
  /\ fed = <<>>
  /\ hist = <<>>
  /\ reset_from = "none"
  /\ text = <<>>
  /\ script = <<>>
  /\ idx = 0

\* c.append(s), the same fragment going to the freshly created twin
AppendFragment(s) ==
  /\ Len(fed) + Len(s) <= MaxFed
  /\ c' = append(c, s)
  /\ fresh' = append(fresh, s)
  /\ fed' = fed \o s
  /\ hist' = Remember(hist, [frag |-> s, before |-> c])
  /\ UNCHANGED <<reset_from, text, script, idx>>

\* c.reset(); the twin is replaced by a newly created tracker
DoReset ==
  /\ c' = reset(c)
  /\ fresh' = new
  /\ fed' = <<>>
  /\ hist' = <<>>
  /\ reset_from' = IF c.escape_next THEN "mid_escape"
                   ELSE IF c.in_string THEN "mid_string"
                   ELSE "clean"
  /\ UNCHANGED <<text, script, idx>>

DoAppend == \E s \in Fragments : AppendFragment(s)

Next == DoAppend \/ DoReset

Spec == Init /\ [][Next]_vars

\* ------------------------------------- well-formed object texts, split
COLON == ":"
COMMA == ","
DIGIT == "1"

\* what a string literal is made of: plain characters (braces among them)
\* and the escape sequences \" and \\
StringUnits ==
  {<<DIGIT>>, <<LBRACE>>, <<RBRACE>>, <<BACKSLASH, QUOTE>>,
   <<BACKSLASH, BACKSLASH>>}

RECURSIVE StringBodies(_)
\* the string contents of at most n characters
StringBodies(n) ==
  IF n <= 0 THEN {<<>>}
  ELSE LET shorter == StringBodies(n - 1)
       IN  shorter \cup {w \in {b \o u : b \in shorter, u \in StringUnits} :
                           Len(w) <= n}

FitsIn(S, n) == {w \in S : Len(w) <= n}

JsonStrings(n) ==
  IF n < 2 THEN {}
  ELSE {<<QUOTE>> \o b \o <<QUOTE>> : b \in FitsIn(StringBodies(n - 2), n - 2)}

RECURSIVE JsonObjects(_)
RECURSIVE JsonMembers(_)
\* the values of at most n characters: a number, a string or an object
JsonValues(n) ==
  IF n < 1 THEN {} ELSE {<<DIGIT>>} \cup JsonStrings(n) \cup JsonObjects(n)

\* the single members "key":value of at most n characters
JsonMember(n) ==
  UNION {{k \o <<COLON>> \o v : v \in JsonValues(n - 1 - Len(k))} :
           k \in JsonStrings(n - 2)}

\* the non-empty member lists "key":value,... of at most n characters
JsonMembers(n) ==
  IF n < 4 THEN {}
  ELSE JsonMember(n)
         \cup UNION {{m \o <<COMMA>> \o l : l \in JsonMembers(n - 1 - Len(m))} :
                       m \in JsonMember(n - 5)}

\* the object texts of at most n characters
JsonObjects(n) ==
  IF n < 2 THEN {}
  ELSE {<<LBRACE, RBRACE>>}
         \cup {<<LBRACE>> \o l \o <<RBRACE>> : l \in JsonMembers(n - 2)}

WellFormedTexts == JsonObjects(MaxText)

InitSplit ==
  /\ text \in WellFormedTexts
  /\ c = new
  /\ fresh = new
  /\ fed = <<>>
  /\ hist = <<>>
  /\ reset_from = "none"
  /\ script = <<>>
  /\ idx = 0

\* c.append(the next n characters of text)
FeedNext(n) ==
  LET s == SubSeq(text, Len(fed) + 1, Len(fed) + n)
  IN  /\ c' = append(c, s)
      /\ fresh' = append(fresh, s)
      /\ fed' = fed \o s
      /\ hist' = Remember(hist, [frag |-> s, before |-> c])
      /\ UNCHANGED <<reset_from, text, script, idx>>

Feed == \E n \in 1..(Len(text) - Len(fed)) : FeedNext(n)

NextSplit == Feed

SpecSplit == InitSplit /\ [][NextSplit]_vars

\* ------------------------------------------------- scripted fragment runs
\* s.chars(): the characters of a string, in order
chars(s) == [i \in 1..Len(s) |-> SubSeq(s, i, i)]

\* tests::simple_object_with_string_value (check_one_shot)
simple_object_with_string_value ==
  <<"{\"city\": \"Beijing\"}">>

\* a leading space, then the object in three fragments
scenario_leading_space ==
  <<" ", "{\"a\"", ": 1", "}">>

\* a first fragment ending in one backslash, then backslash quote y quote }
scenario_backslash_split ==
  <<"{\"a\": \"x\\", "\\\"y\"}">>

\* a string value holding braces, closed in the first fragment
scenario_braces_in_string ==
  <<"{\"code\": \"{ } {\"", "}\"", "}">>

\* tests::escape_split_across_chunks
escape_split_across_chunks ==
  <<"{\"new_string\": \"fn main() {\\n    println!(\\\"Hello, World!", "\\",
    "\"", "\");\\n}\"}">>

\* tests::escape_at_chunk_boundary_does_not_leak
escape_at_chunk_boundary_does_not_leak ==
  <<"{\"a\": \"x\\", "n", "\"}">>

\* tests::bytedance_doubao_streaming_simulation
bytedance_doubao_streaming_simulation ==
  <<"", " {\"", "city", "\":", " \"", "Beijing", "\"}">>

\* tests::edit_tool_streaming_simulation
edit_tool_streaming_simulation ==
  <<"{\"file_path\": \"E:/Projects/ForTest/basic-rust/src/main.rs\", \"new_string\": \"fn main() {\\n    println!(\\\"Hello,",
    " World", "!\\", "\");", "\\", "n", "}\",", " \"old_string\": \"\"", "}">>

\* tests::never_valid_during_progressive_append
never_valid_during_progressive_append ==
  <<"{", "\"", "k", "e", "y", "\"", ":", " ", "\"", "v", "a", "l", "\"", "}">>

\* tests::never_valid_during_nested_object_streaming
never_valid_during_nested_object_streaming ==
  <<"{\"a\"", ": ", "{\"b\"", ": 1", "}", "}">>

\* tests::string_with_braces_never_premature_valid
string_with_braces_never_premature_valid ==
  <<"{\"code\": \"", "{ ", "} ", "{ ", "}", "\"", "}">>

\* tests::empty_chunks_between_data
empty_chunks_between_data ==
  <<"", "{", "", "\"a\"", "", ": 1", "", "", "}">>

\* tests::empty_chunks_before_first_brace
empty_chunks_before_first_brace ==
  <<"", "", "", "  ", "{}">>

\* tests::escaped_backslash_then_escaped_quote_split_1
escaped_backslash_then_escaped_quote_split_1 ==
  <<"{\"a\": \"x", "\\", "\\", "\\", "\"", "y", "\"}">>

\* tests::escaped_backslash_then_escaped_quote_split_2
escaped_backslash_then_escaped_quote_split_2 ==
  <<"{\"a\": \"x\\\\", "\\\"y\"}">>

\* tests::escaped_backslash_then_escaped_quote_split_3
escaped_backslash_then_escaped_quote_split_3 ==
  <<"{\"a\": \"x\\", "\\\\", "\"y\"}">>

\* tests::escaped_backslash_then_closing_quote_split_at_boundary
escaped_backslash_then_closing_quote_split_at_boundary ==
  <<"{\"a\": \"x\\", "\\\"}">>

\* tests::escaped_backslash_then_closing_quote_split_after_pair
escaped_backslash_then_closing_quote_split_after_pair ==
  <<"{\"a\": \"x\\\\", "\"}">>

\* tests::multiple_top_level_objects_first_wins
multiple_top_level_objects_first_wins ==
  <<"{}", "{}">>

\* tests::escaped_backslash_followed_by_quote_char_by_char (check_char_by_char)
escaped_backslash_followed_by_quote_char_by_char ==
  <<"{", "\"", "p", "a", "t", "h", "\"", ":", " ", "\"", "C", ":", "\\",
    "\\", "\"", "}">>

\* tests::consecutive_escaped_backslashes_char_by_char (check_char_by_char)
consecutive_escaped_backslashes_char_by_char ==
  <<"{", "\"", "p", "\"", ":", " ", "\"", "a", "\\", "\\", "\\", "\\", "b",
    "\"", "}">>

Scripts ==
  {simple_object_with_string_value,
   scenario_leading_space,
   scenario_backslash_split,
   scenario_braces_in_string,
   escape_split_across_chunks,
   escape_at_chunk_boundary_does_not_leak,
   bytedance_doubao_streaming_simulation,
   edit_tool_streaming_simulation,
   never_valid_during_progressive_append,
   never_valid_during_nested_object_streaming,
   string_with_braces_never_premature_valid,
   empty_chunks_between_data,
   empty_chunks_before_first_brace,
   escaped_backslash_then_escaped_quote_split_1,
   escaped_backslash_then_escaped_quote_split_2,
   escaped_backslash_then_escaped_quote_split_3,
   escaped_backslash_then_closing_quote_split_at_boundary,
   escaped_backslash_then_closing_quote_split_after_pair,
   multiple_top_level_objects_first_wins,
   escaped_backslash_followed_by_quote_char_by_char,
   consecutive_escaped_backslashes_char_by_char}

InitScript ==
  /\ script \in Scripts
  /\ idx = 0
  /\ c = new
  /\ fresh = new
  /\ fed = <<>>
  /\ hist = <<>>
  /\ reset_from = "none"
  /\ text = <<>>

\* c.append(the next fragment of the script)
AppendNext ==
  /\ idx < Len(script)
  /\ LET s == chars(script[idx + 1])
     IN  /\ c' = append(c, s)
         /\ fresh' = append(fresh, s)
         /\ fed' = fed \o s
         /\ hist' = Remember(hist, [frag |-> s, before |-> c])
  /\ idx' = idx + 1
  /\ UNCHANGED <<reset_from, text, script>>

NextScript == AppendNext

SpecScript == InitScript /\ [][NextScript]_vars

\* ------------------------------------------------------------ properties
NoLeftBrace(s) == \A i \in 1..Len(s) : s[i] # LBRACE

RECURSIVE FromFirstBrace(_)
\* s without everything that precedes its first '{'
FromFirstBrace(s) ==
  IF s = <<>> THEN <<>>
  ELSE IF Head(s) = LBRACE THEN s ELSE FromFirstBrace(Tail(s))

Observed(self) == <<get_buffer(self), is_valid(self)>>

LastCall == hist[Len(hist)]

\* C1: a well-formed object text fed in fragments, however it is split, is
\* reported complete after the final fragment and after no earlier one, and
\* buffer() is then the text
C1_CompleteExactlyAtEnd ==
  /\ Len(fed) < Len(text) => ~is_valid(c)
  /\ fed = text => (is_valid(c) /\ get_buffer(c) = text)

\* a text with a nested object and an escaped quote, fed to its end, the
\* final fragment starting inside the nested object
C1_Witness ==
  /\ fed = text
  /\ is_valid(c)
  /\ Len(hist) = 2
  /\ Len(hist[2].before.stack) = 2
  /\ \E i \in 2..(Len(text) - 1) :
       text[i - 1] = QUOTE /\ text[i] = BACKSLASH /\ text[i + 1] = QUOTE

\* C2: after any sequence of appends on a new or just reset tracker, buffer()
\* is the concatenation of the appended fragments from the first '{' on
C2_BufferIsInputFromFirstBrace == get_buffer(c) = FromFirstBrace(fed)

\* a discarded prefix, then recorded text with an escaped character, fed in
\* more than one call
C2_Witness ==
  /\ Len(hist) = 2
  /\ hist[2].frag # <<>>
  /\ hist[2].before.escape_next
  /\ Len(get_buffer(c)) >= 3
  /\ Len(fed) > Len(get_buffer(c))

\* C3 as stated: first fragment ending in a single backslash, second
\* fragment backslash quote y quote brace: false after the first call and
\* true after the second
C3_AsStated ==
  script = scenario_backslash_split =>
    /\ idx = 1 => ~is_valid(c)
    /\ idx = 2 => is_valid(c)

\* C3 amended: with these two fragments is_valid() is false after both
\* calls (the second fragment's backslash is the escaped character and its
\* first quote closes the string); false then true is what the fragments
\* `{"a": "x\\` and `\"y"}` give, the first ending in two backslashes
C3_BackslashSplit ==
  /\ script = scenario_backslash_split =>
       /\ idx >= 1 => ~is_valid(c)
       /\ idx = 1 => (c.in_string /\ c.escape_next)
       /\ idx = 2 => (c.in_string /\ ~c.escape_next /\ Len(c.stack) = 1)
  /\ script = escaped_backslash_then_escaped_quote_split_2 =>
       /\ idx = 1 => ~is_valid(c)
       /\ idx = 2 => is_valid(c)

\* both fragments of the stated scenario have been appended
C3_Witness ==
  /\ script = scenario_backslash_split
  /\ idx = 2
  /\ Len(hist) = 2
  /\ hist[2].before.escape_next

\* C4 as stated: false after the first and the second fragment, true only
\* after the third
C4_AsStated ==
  script = scenario_braces_in_string =>
    /\ idx \in {1, 2} => ~is_valid(c)
    /\ idx = 3 => is_valid(c)

\* C4 amended: with these three fragments is_valid() is false after the
\* first call and true after the second and the third (the first fragment
\* already closes its string, so the '}' of the second is outside a string);
\* the string value left open across fragments, as in
\* string_with_braces_never_premature_valid, stays false until the final '}'
C4_BracesInString ==
  /\ script = scenario_braces_in_string =>
       /\ idx = 1 => (~is_valid(c) /\ ~c.in_string /\ Len(c.stack) = 1)
       /\ idx = 2 => (is_valid(c) /\ c.in_string)
       /\ idx = 3 => (is_valid(c) /\ c.in_string)
  /\ script = string_with_braces_never_premature_valid =>
       (is_valid(c) <=> idx = Len(script))

\* all three fragments of the stated scenario have been appended
C4_Witness ==
  /\ script = scenario_braces_in_string
  /\ idx = 3
  /\ Len(hist) = 2
  /\ hist[2].frag = <<RBRACE>>

\* C5: append(a) followed by append(b) leaves the tracker in the state of
\* the single call append(a \o b), from every reachable state
C5_SplitUnobservable ==
  Len(hist) = 2 =>
    c = append(hist[1].before, hist[1].frag \o hist[2].frag)

\* the boundary fell between a backslash and the quote it escapes
C5_Witness ==
  /\ Len(hist) = 2
  /\ hist[1].frag # <<>>
  /\ hist[1].frag[Len(hist[1].frag)] = BACKSLASH
  /\ hist[2].before.escape_next
  /\ hist[2].frag # <<>>
  /\ Head(hist[2].frag) = QUOTE
  /\ c.in_string

\* C6: reset() restores the state of new(), and from then on buffer() and
\* is_valid() agree with those of a newly created tracker fed the same calls
C6_ResetLikeFresh ==
  reset_from # "none" =>
    /\ Observed(c) = Observed(fresh)
    /\ hist = <<>> => (c = new /\ get_buffer(c) = <<>> /\ ~is_valid(c))

\* reset came while an escape was pending, and a later object completed
C6_Witness ==
  /\ reset_from = "mid_escape"
  /\ Len(hist) = 2
  /\ Len(fed) >= 4
  /\ fed[2] = QUOTE
  /\ is_valid(c)
  /\ ~c.in_string

RECURSIVE HasStructuralClose(_, _)
\* some '}' of w is consumed outside a string and unescaped, starting in self
HasStructuralClose(self, w) ==
  /\ w # <<>>
  /\ \/ Head(w) = RBRACE /\ self.seen_left_brace /\ ~self.in_string
          /\ ~self.escape_next
     \/ HasStructuralClose(append(self, <<Head(w)>>), Tail(w))

\* a '{' appended right after a top-level object closed
Reopened(h) ==
  /\ is_valid(h.before)
  /\ ~h.before.in_string
  /\ h.frag = <<LBRACE>>

\* C7: is_valid() is not latched: a '{' appended to a just completed object
\* makes it false, and it stays false until a '}' arrives outside a string
C7_NotLatched ==
  /\ hist # <<>> /\ Reopened(LastCall) => ~is_valid(c)
  /\ Len(hist) = 2 /\ Reopened(hist[1]) =>
       (is_valid(c) => HasStructuralClose(hist[2].before, hist[2].frag))
  /\ Len(hist) = 2 /\ Reopened(hist[1]) /\ hist[2].frag = <<RBRACE>> =>
       is_valid(c)

\* the reopened object was closed again by a later fragment
C7_Witness ==
  /\ Len(hist) = 2
  /\ Reopened(hist[1])
  /\ ~is_valid(hist[2].before)
  /\ is_valid(c)

\* C8: while no '{' has been appended, is_valid() is false and buffer() empty
C8_NoBraceNothing ==
  NoLeftBrace(fed) => (~is_valid(c) /\ get_buffer(c) = <<>>)

\* text with '}' and a quote but no '{', with an empty fragment among the calls
C8_Witness ==
  /\ NoLeftBrace(fed)
  /\ Len(hist) = 2
  /\ hist[1].frag = <<>>
  /\ \E i \in 1..Len(fed) : fed[i] = RBRACE
  /\ \E i \in 1..Len(fed) : fed[i] = QUOTE

\* C9: a prefix without '{' changes nothing: the tracker fed P and then T
\* reports the buffer() and is_valid() of a tracker fed T alone
C9_LeadingNoiseDiscarded ==
  \A k \in 0..Len(fed) :
    NoLeftBrace(SubSeq(fed, 1, k)) =>
      /\ Observed(c) = Observed(append(new, SubSeq(fed, k + 1, Len(fed))))
      /\ Len(get_buffer(c)) <= Len(fed) - k

\* a prefix holding a quote and a backslash, then a completed object
C9_Witness ==
  /\ Len(fed) >= 4
  /\ fed[1] = QUOTE
  /\ fed[2] = BACKSLASH
  /\ fed[3] = LBRACE
  /\ is_valid(c)
  /\ Len(hist) = 2

\* C10: a '{' or '}' consumed while in_string is true leaves the depth, and
\* so is_valid(), unchanged
C10_BracesInStringKeepDepth ==
  /\ c.in_string =>
       \A ch \in {LBRACE, RBRACE} : append(c, <<ch>>).stack = c.stack
  /\ (hist # <<>> /\ LastCall.before.in_string
        /\ LastCall.frag \in {<<LBRACE>>, <<RBRACE>>}) =>
       (c.stack = LastCall.before.stack
          /\ is_valid(c) = is_valid(LastCall.before))

\* a '}' was appended inside a string of an object still open
C10_Witness ==
  /\ hist # <<>>
  /\ LastCall.before.in_string
  /\ ~LastCall.before.escape_next
  /\ LastCall.frag = <<RBRACE>>
  /\ Len(c.stack) = 1

\* the call appended the single character ch
Consumed(h, ch) == h.frag = <<ch>>

\* C11: a character consumed while escape_next is true, whatever it is, only
\* extends the buffer and clears escape_next: in_string and the depth stay
C11_EscapedConsumedLiterally ==
  /\ c.escape_next =>
       \A ch \in Chars :
         append(c, <<ch>>) =
           [c EXCEPT !.buffer = Append(@, ch), !.escape_next = FALSE]
  /\ (hist # <<>> /\ LastCall.before.escape_next
        /\ \E ch \in Chars : Consumed(LastCall, ch)) =>
       /\ c.in_string = LastCall.before.in_string
       /\ c.stack = LastCall.before.stack
       /\ c.buffer = LastCall.before.buffer \o LastCall.frag
       /\ ~c.escape_next

\* an escaped quote was consumed in a call of its own and the string is
\* still open
C11_Witness ==
  /\ hist # <<>>
  /\ LastCall.before.escape_next
  /\ Consumed(LastCall, QUOTE)
  /\ c.in_string
  /\ Len(c.stack) = 1

\* C12: escape_next lasts for one character: true before a character is
\* consumed, it is false right after, also for a backslash and also when
\* the character comes in a later call, after empty fragments
C12_EscapeLastsOneChar ==
  /\ c.escape_next => \A ch \in Chars : ~append(c, <<ch>>).escape_next
  /\ c.escape_next => append(c, <<>>).escape_next
  /\ (hist # <<>> /\ LastCall.before.escape_next /\ LastCall.frag # <<>>
        /\ Len(LastCall.frag) = 1) => ~c.escape_next
  /\ (Len(hist) = 2 /\ hist[1].before.escape_next /\ hist[1].frag = <<>>) =>
       /\ hist[2].before.escape_next
       /\ Len(hist[2].frag) = 1 => ~c.escape_next

\* a backslash, an empty fragment, then the escaped backslash in a call of
\* its own: no escape is pending afterwards
C12_Witness ==
  /\ Len(hist) = 2
  /\ hist[1].before.escape_next
  /\ hist[1].frag = <<>>
  /\ Consumed(hist[2], BACKSLASH)
  /\ ~c.escape_next
  /\ c.in_string

\* complete, outside any string, no escape pending
CompleteAtRest(self) ==
  /\ self.seen_left_brace
  /\ self.stack = <<>>
  /\ ~self.in_string
  /\ ~self.escape_next

\* C13: the depth is never negative, and a '}' consumed at depth zero
\* outside a string is absorbed: it only extends the buffer, is_valid() stays
C13_UnmatchedCloseAbsorbed ==
  /\ Len(c.stack) >= 0
  /\ CompleteAtRest(c) =>
       /\ append(c, <<RBRACE>>) = [c EXCEPT !.buffer = Append(@, RBRACE)]
       /\ is_valid(append(c, <<RBRACE>>))
  /\ (hist # <<>> /\ CompleteAtRest(LastCall.before)
        /\ Consumed(LastCall, RBRACE)) =>
       /\ c = [LastCall.before EXCEPT !.buffer = Append(@, RBRACE)]
       /\ is_valid(c)

\* a '}' arrived after the object had closed
C13_Witness ==
  /\ hist # <<>>
  /\ CompleteAtRest(LastCall.before)
  /\ Consumed(LastCall, RBRACE)
  /\ is_valid(c)
  /\ Len(c.buffer) >= 3

\* C14: a second balanced object appended after the first has completed
\* takes is_valid() to false while it is open and back to true when it
\* closes, and buffer() holds both objects
C14_SecondObject ==
  /\ (Len(hist) = 2 /\ CompleteAtRest(hist[1].before)
        /\ Consumed(hist[1], LBRACE) /\ Consumed(hist[2], RBRACE)) =>
       /\ ~is_valid(hist[2].before)
       /\ is_valid(c)
       /\ get_buffer(c) = get_buffer(hist[1].before) \o <<LBRACE, RBRACE>>
  /\ (hist # <<>> /\ CompleteAtRest(LastCall.before)
        /\ LastCall.frag \in {<<LBRACE, RBRACE>>, <<LBRACE, PLAIN, RBRACE>>}) =>
       /\ ~is_valid(append(LastCall.before, <<LBRACE>>))
       /\ is_valid(c)
       /\ get_buffer(c) = get_buffer(LastCall.before) \o LastCall.frag

\* the first object was {} and the second one was opened and closed in two
\* further calls
C14_Witness ==
  /\ Len(hist) = 2
  /\ hist[1].before.buffer = <<LBRACE, RBRACE>>
  /\ CompleteAtRest(hist[1].before)
  /\ Consumed(hist[1], LBRACE)
  /\ Consumed(hist[2], RBRACE)
  /\ is_valid(c)

\* the values a JsonChecker can hold: text, a stack of '{' markers, flags
WellFormed(self) ==
  /\ DOMAIN self =
       {"buffer", "stack", "in_string", "escape_next", "seen_left_brace"}
  /\ self.buffer \in Seq(Chars)
  /\ self.stack \in Seq({LBRACE})
  /\ self.in_string \in BOOLEAN
  /\ self.escape_next \in BOOLEAN
  /\ self.seen_left_brace \in BOOLEAN

\* C15: append is defined for every fragment in every reachable state and
\* ends in a well-formed tracker; text whose braces never balance (here:
\* text without any '}') leaves is_valid() false after every append
C15_AppendNeverFails ==
  /\ WellFormed(c)
  /\ \A ch \in Chars : WellFormed(append(c, <<ch>>))
  /\ (\A i \in 1..Len(fed) : fed[i] # RBRACE) => ~is_valid(c)

\* an object that was opened twice and never closed, appended to the
\* payload bound
C15_Witness ==
  /\ Len(fed) >= MaxFed
  /\ \A i \in 1..Len(fed) : fed[i] # RBRACE
  /\ Len(c.stack) >= 2
  /\ c.in_string
  /\ Len(hist) = 2

\* every field but the buffer
Scan(self) ==
  <<self.stack, self.in_string, self.escape_next, self.seen_left_brace>>

\* C16: a backslash consumed outside a string starts no escape, so the
\* character after it is classified as if the backslash were not there
C16_BackslashOutsideString ==
  /\ (c.seen_left_brace /\ ~c.in_string /\ ~c.escape_next) =>
       LET d == append(c, <<BACKSLASH>>)
       IN  /\ d = [c EXCEPT !.buffer = Append(@, BACKSLASH)]
           /\ \A ch \in Chars : Scan(append(d, <<ch>>)) = Scan(append(c, <<ch>>))
  /\ (Len(hist) = 2 /\ hist[1].before.seen_left_brace
        /\ ~hist[1].before.in_string /\ ~hist[1].before.escape_next
        /\ Consumed(hist[1], BACKSLASH)) =>
       /\ ~hist[2].before.escape_next
       /\ Consumed(hist[2], QUOTE) => c.in_string
       /\ Consumed(hist[2], LBRACE) =>
            c.stack = Append(hist[1].before.stack, LBRACE)
       /\ Consumed(hist[2], RBRACE) =>
            Len(c.stack) = IF hist[1].before.stack = <<>> THEN 0
                           ELSE Len(hist[1].before.stack) - 1

\* a backslash outside a string, then a quote that opened a string
C16_Witness ==
  /\ Len(hist) = 2
  /\ hist[1].before.seen_left_brace
  /\ ~hist[1].before.in_string
  /\ Consumed(hist[1], BACKSLASH)
  /\ Consumed(hist[2], QUOTE)
  /\ c.in_string

\* C17: append("") is a no-op: all five fields, and so buffer() and
\* is_valid(), are what they were, also while an escape is pending
C17_EmptyFragmentNoOp ==
  /\ append(c, <<>>) = c
  /\ (hist # <<>> /\ LastCall.frag = <<>>) =>
       /\ c = LastCall.before
       /\ Observed(c) = Observed(LastCall.before)

\* an empty fragment was appended while an escape was pending
C17_Witness ==
  /\ hist # <<>>
  /\ LastCall.frag = <<>>
  /\ LastCall.before.escape_next
  /\ c.escape_next

\* C18: escape_next is true only while in_string is true, after any
\* sequence of append and reset calls
C18_EscapeOnlyInString == c.escape_next => c.in_string

\* an escape is pending in a call sequence that went through reset()
C18_Witness ==
  /\ reset_from = "mid_escape"
  /\ c.escape_next
  /\ c.in_string
  /\ hist # <<>>

\* C19: seen_left_brace is false exactly when the buffer is empty; while it
\* is false the stack is empty and no string or escape is open; a non-empty
\* buffer starts with '{'; append never takes seen_left_brace back to false
C19_BraceSeenAndBuffer ==
  /\ ~c.seen_left_brace <=> c.buffer = <<>>
  /\ ~c.seen_left_brace =>
       (c.stack = <<>> /\ ~c.in_string /\ ~c.escape_next)
  /\ c.buffer # <<>> => Head(c.buffer) = LBRACE
  /\ c.seen_left_brace =>
       \A ch \in Chars : append(c, <<ch>>).seen_left_brace
  /\ (hist # <<>> /\ LastCall.before.seen_left_brace) => c.seen_left_brace
  /\ (hist = <<>> /\ reset_from # "none") => ~c.seen_left_brace

\* noise with a quote and a backslash was discarded before the first '{',
\* and later appends kept seen_left_brace
C19_Witness ==
  /\ Len(hist) = 2
  /\ Len(fed) >= 4
  /\ fed[1] = QUOTE
  /\ fed[2] = BACKSLASH
  /\ hist[2].before.seen_left_brace
  /\ hist[2].frag # <<>>
  /\ c.seen_left_brace

\* ch is consumed outside a string and not as an escaped character
Structural(self, ch, brace) ==
  ch = brace /\ ~self.in_string /\ ~self.escape_next

\* C20: during append is_valid() turns true only on a '}' and turns false
\* only on a '{', each consumed outside a string and unescaped; no other
\* character changes it, and otherwise only reset() takes it to false
C20_ValidChangesAtBraces ==
  /\ \A ch \in Chars :
       LET d == append(c, <<ch>>)
       IN  /\ (~is_valid(c) /\ is_valid(d)) => Structural(c, ch, RBRACE)
           /\ (is_valid(c) /\ ~is_valid(d)) => Structural(c, ch, LBRACE)
  /\ (hist # <<>> /\ Len(LastCall.frag) = 1) =>
       LET b == LastCall.before
           ch == LastCall.frag[1]
       IN  /\ (~is_valid(b) /\ is_valid(c)) => Structural(b, ch, RBRACE)
           /\ (is_valid(b) /\ ~is_valid(c)) => Structural(b, ch, LBRACE)
  /\ (hist # <<>> /\ LastCall.frag = <<>>) =>
       is_valid(c) = is_valid(LastCall.before)
  /\ (hist = <<>> /\ reset_from # "none") => ~is_valid(c)

\* is_valid() turned true on a '}' consumed outside a string, after quotes
\* and braces inside a string had left it false
C20_Witness ==
  /\ Len(hist) = 2
  /\ hist[1].before.in_string
  /\ Consumed(hist[1], QUOTE)
  /\ ~is_valid(hist[2].before)
  /\ Consumed(hist[2], RBRACE)
  /\ is_valid(c)
====
